---- MODULE Spec2Model ----
(***************************************************************************)
(* Model of the match-data loader (src/src/data_loader.py) and of the      *)
(* possession/run analysis (src/src/analyze.py).                           *)
(*                                                                         *)
(* A pandas DataFrame is a record [err, cols, rows]: cols is the sequence  *)
(* of column labels (labels may repeat, as pandas allows), rows is the     *)
(* sequence of rows, each row a sequence of cells aligned with cols.  A    *)
(* cell is None (NaN / null) or Some(v) with v an integer.  A call that    *)
(* raises is the frame Raised(e), whose err names the exception.           *)
(*                                                                         *)
(* The fetch log `fetches` records every fetch attempted, in order, as     *)
(* <<source, succeeded>>.  raw_players is the roster as fetched, before    *)
(* the loader filters it into players_df.                                  *)
(*                                                                         *)
(* Numbers: xthreat and xpass_completion are held in tenths, the five RVA  *)
(* components and RVA in thousandths, the coefficients in hundredths, so   *)
(* that the decimal arithmetic of the scoring formula is exact.            *)
(***************************************************************************)
EXTENDS Integers, Sequences, FiniteSets, TLC

VARIABLES pc, fetches, minutes, tracking_df, raw_players, players_df,
          enriched_tracking_data, event_data, synced

loadVars == <<pc, fetches, minutes, tracking_df, raw_players, players_df,
              enriched_tracking_data, event_data, synced>>

(* The tables a caller of analyze.py holds, the last function it called    *)
(* and what that call returned.                                            *)
VARIABLES possessions, passing_options, call, ret

analyzeVars == <<possessions, passing_options, call, ret>>

vars == <<loadVars, analyzeVars>>

-----------------------------------------------------------------------------
(* Cells and frames                                                        *)

None == <<>>

Some(v) == <<v>>

IsNull(c) == c = None

Val(c) == c[1]

Frame(cols, rows) == [err |-> "", cols |-> cols, rows |-> rows]

Raised(e) == [err |-> e, cols |-> <<>>, rows |-> <<>>]

Unset == Raised("unset")

IsFrame(df) == df.err = ""

Range(s) == {s[i] : i \in 1..Len(s)}

RECURSIVE Flatten(_)
Flatten(ss) == IF ss = <<>> THEN <<>> ELSE Head(ss) \o Flatten(Tail(ss))

HasCol(df, c) == c \in Range(df.cols)

NCol(df, c) == Cardinality({i \in 1..Len(df.cols) : df.cols[i] = c})

Idx(cols, c) == CHOOSE i \in 1..Len(cols) : cols[i] = c

Cell(df, row, c) == row[Idx(df.cols, c)]

Column(df, c) == [i \in 1..Len(df.rows) |-> Cell(df, df.rows[i], c)]

Nulls(n) == [i \in 1..n |-> None]

(* df[c] = values : an existing label is overwritten in place, a new one  *)
(* is appended as the last column.                                         *)
SetCol(df, c, values) ==
    IF HasCol(df, c)
    THEN Frame(df.cols,
               [i \in 1..Len(df.rows) |->
                   [j \in 1..Len(df.cols) |->
                       IF df.cols[j] = c THEN values[i] ELSE df.rows[i][j]]])
    ELSE Frame(Append(df.cols, c),
               [i \in 1..Len(df.rows) |-> Append(df.rows[i], values[i])])

(* df[mask] : the rows whose mask entry is True, in order.                 *)
Filter(df, mask) ==
    Frame(df.cols,
          Flatten([i \in 1..Len(df.rows) |-> IF mask[i] THEN <<df.rows[i]>> ELSE <<>>]))

-----------------------------------------------------------------------------
(* DataFrame.merge with left_on / right_on naming different columns        *)

(* Labels found on both sides get the side's suffix; a suffix of "" keeps  *)
(* the label.  pandas checks each side alone for duplicates the suffix     *)
(* creates, so a suffixed right label may repeat a label of the left.      *)
Relabel(cols, other, suffix) ==
    [i \in 1..Len(cols) |->
        IF cols[i] \in Range(other) THEN cols[i] \o suffix ELSE cols[i]]

SuffixCollision(cols, relabelled) ==
    \E i, j \in 1..Len(cols) :
        i # j /\ relabelled[i] = relabelled[j] /\ cols[i] # cols[j]

MergeRows(left, right, left_on, right_on, how) ==
    Flatten([i \in 1..Len(left.rows) |->
        LET l == left.rows[i]
            k == Cell(left, l, left_on)
            hits == SelectSeq(right.rows, LAMBDA r : Cell(right, r, right_on) = k)
        IN  IF hits = <<>>
            THEN IF how = "left" THEN <<l \o Nulls(Len(right.cols))>> ELSE <<>>
            ELSE [n \in 1..Len(hits) |-> l \o hits[n]]])

Merge(left, right, left_on, right_on, how, lsuffix, rsuffix) ==
    IF ~HasCol(left, left_on) \/ ~HasCol(right, right_on)
    THEN Raised("KeyError")
    ELSE LET llabels == Relabel(left.cols, right.cols, lsuffix)
             rlabels == Relabel(right.cols, left.cols, rsuffix)
         IN  IF SuffixCollision(left.cols, llabels)
                    \/ SuffixCollision(right.cols, rlabels)
             THEN Raised("MergeError")
             ELSE Frame(llabels \o rlabels,
                        MergeRows(left, right, left_on, right_on, how))

-----------------------------------------------------------------------------
(* load_match_data: the upstream data a fetch can return                   *)

MaxEvents == 2

Frames == 1..2

Players == 1..2

EventFrames == 1..2

TeamOf(p) == p

(* A wall-clock or frame time "HH:MM:SS" is the triple <<h, m, s>>.        *)
Clock(h, m, s) == <<h, m, s>>

TrackingCols == <<"player_id", "frame", "timestamp">>

(* One record per player per frame; frame f is sampled at minute f - 1.    *)
TrackingTable(S) ==
    Frame(TrackingCols,
          Flatten([f \in Frames |-> Flatten([p \in Players |->
              IF <<f, p>> \in S
              THEN << <<Some(p), Some(f), Some(Clock(0, f - 1, 0))>> >>
              ELSE <<>>])]))

RosterCols == <<"start_time", "end_time", "id", "team_id">>

StartTimes == {None, Some(Clock(0, 0, 0))}

EndTimes == {None, Some(Clock(0, 45, 0))}

(* roster[p] is "absent" or the pair <<start_time, end_time>> of player p. *)
Rosters == [Players -> {"absent"} \cup (StartTimes \X EndTimes)]

RosterTable(roster) ==
    Frame(RosterCols,
          Flatten([p \in Players |->
              IF roster[p] = "absent" THEN <<>>
              ELSE << <<roster[p][1], roster[p][2], Some(p), Some(TeamOf(p))>> >>]))

EventCols == <<"event_id", "frame_end", "player_id", "team_id",
               "player_in_possession_id">>

(* The event log: event_id is the row's position, unique.                  *)
EventLogs ==
    UNION {[1..n -> EventFrames \X Players] : n \in 0..MaxEvents}

EventTable(log) ==
    Frame(EventCols,
          [i \in 1..Len(log) |->
              <<Some(i), Some(log[i][1]), Some(log[i][2]),
                Some(TeamOf(log[i][2])), Some(log[i][2])>>])

MinutesArgs == {None, Some(0)}

-----------------------------------------------------------------------------
(* load_match_data: the processing between the fetches                     *)

time_to_seconds(time_str) ==
    IF time_str = None THEN 90 * 60
    ELSE Val(time_str)[1] * 3600 + Val(time_str)[2] * 60 + Val(time_str)[3]

KeepRosterRowWithBothTimes(row) == ~(IsNull(row[1]) \/ IsNull(row[2]))

(* players_df[~(start_time.isna() & end_time.isna())]                      *)
KeepRosterRow(row) == ~(IsNull(row[1]) /\ IsNull(row[2]))

NormalizePlayers(raw) ==
    LET kept == Filter(raw, [i \in 1..Len(raw.rows) |-> KeepRosterRow(raw.rows[i])])
    IN  SetCol(kept, "total_time",
               [i \in 1..Len(kept.rows) |->
                   Some(time_to_seconds(kept.rows[i][2])
                        - time_to_seconds(kept.rows[i][1]))])

to_datetime(c) == IF c = None THEN None ELSE Some(time_to_seconds(c))

SeqMin(s) == CHOOSE m \in Range(s) : \A x \in Range(s) : m <= x

EnrichTracking(tracking, players, mins) ==
    LET merged == Merge(tracking, players, "player_id", "id", "inner", "_x", "_y")
        stamped == SetCol(merged, "timestamp",
                          [i \in 1..Len(merged.rows) |->
                              to_datetime(Cell(merged, merged.rows[i], "timestamp"))])
    IN  IF mins = None \/ stamped.rows = <<>>
        THEN stamped
        ELSE LET start_time ==
                     SeqMin([i \in 1..Len(stamped.rows) |->
                                Val(Cell(stamped, stamped.rows[i], "timestamp"))])
             IN  Filter(stamped,
                        [i \in 1..Len(stamped.rows) |->
                            Val(Cell(stamped, stamped.rows[i], "timestamp"))
                                <= start_time + Val(mins) * 60])

(* NaN == NaN is False: a flag is set only when both cells hold a value.   *)
EqFlag(a, b) == IF a # None /\ a = b THEN Some(1) ELSE Some(0)

(* The priority resolution the source keeps commented out: one event per  *)
(* frame_end, the first.                                                   *)
SyncJoinDeduplicated(enriched, events) ==
    LET first(i) == \A k \in 1..(i - 1) :
                        Cell(events, events.rows[k], "frame_end")
                            # Cell(events, events.rows[i], "frame_end")
        kept == Flatten([i \in 1..Len(events.rows) |->
                    IF first(i) THEN <<events.rows[i]>> ELSE <<>>])
    IN  Merge(enriched, Frame(events.cols, kept),
              "frame", "frame_end", "left", "_tracking", "_event")

SyncJoin(enriched, events) ==
    Merge(enriched, events, "frame", "frame_end", "left", "_tracking", "_event")

Sync(enriched, events) ==
    LET j == SyncJoin(enriched, events)
        flag(a, b) == [i \in 1..Len(j.rows) |->
                          EqFlag(Cell(j, j.rows[i], a), Cell(j, j.rows[i], b))]
        r == SetCol(j, "runner", flag("player_id_tracking", "player_id_event"))
        b == SetCol(r, "ball_carrier",
                    flag("player_id_tracking", "player_in_possession_id"))
    IN  SetCol(b, "tip", flag("team_id_tracking", "team_id_event"))

-----------------------------------------------------------------------------
(* load_match_data: the steps                                              *)

InitLoad ==
    /\ pc = "tracking"
    /\ fetches = <<>>
    /\ minutes \in MinutesArgs
    /\ tracking_df = Unset
    /\ raw_players = Unset
    /\ players_df = Unset
    /\ enriched_tracking_data = Unset
    /\ event_data = Unset
    /\ synced = Unset
    /\ possessions = Unset
    /\ passing_options = Unset
    /\ call = "load"
    /\ ret = Unset

FetchTrackingOk ==
    /\ pc = "tracking"
    /\ \E S \in SUBSET (Frames \X Players) : tracking_df' = TrackingTable(S)
    /\ fetches' = Append(fetches, <<"tracking", TRUE>>)
    /\ pc' = "meta"
    /\ UNCHANGED <<minutes, raw_players, players_df, enriched_tracking_data, event_data, synced, analyzeVars>>

FetchTrackingFails ==
    /\ pc = "tracking"
    /\ fetches' = Append(fetches, <<"tracking", FALSE>>)
    /\ pc' = "failed"
    /\ UNCHANGED <<minutes, tracking_df, raw_players, players_df,
                   enriched_tracking_data, event_data, synced, analyzeVars>>

FetchMetaOk ==
    /\ pc = "meta"
    /\ \E roster \in Rosters :
           /\ raw_players' = RosterTable(roster)
           /\ players_df' = NormalizePlayers(raw_players')
           /\ enriched_tracking_data' =
                  EnrichTracking(tracking_df, players_df', minutes)
    /\ fetches' = Append(fetches, <<"meta", TRUE>>)
    /\ pc' = "events"
    /\ UNCHANGED <<minutes, tracking_df, event_data, synced, analyzeVars>>

FetchMetaFails ==
    /\ pc = "meta"
    /\ fetches' = Append(fetches, <<"meta", FALSE>>)
    /\ pc' = "failed"
    /\ UNCHANGED <<minutes, tracking_df, raw_players, players_df,
                   enriched_tracking_data, event_data, synced, analyzeVars>>

EventsLoaded(source) ==
    /\ \E log \in EventLogs :
           /\ event_data' = EventTable(log)
           /\ synced' = Sync(enriched_tracking_data, event_data')
    /\ fetches' = Append(fetches, <<source, TRUE>>)
    /\ pc' = "done"
    /\ UNCHANGED <<minutes, tracking_df, raw_players, players_df,
                   enriched_tracking_data, analyzeVars>>

FetchEventsPrimaryOk ==
    /\ pc = "events"
    /\ EventsLoaded("events_primary")

FetchEventsPrimaryFails ==
    /\ pc = "events"
    /\ fetches' = Append(fetches, <<"events_primary", FALSE>>)
    /\ pc' = "fallback"
    /\ UNCHANGED <<minutes, tracking_df, raw_players, players_df,
                   enriched_tracking_data, event_data, synced, analyzeVars>>

FetchEventsFallbackOk ==
    /\ pc = "fallback"
    /\ EventsLoaded("events_fallback")

FetchEventsFallbackRetries ==
    /\ pc = "fallback"
    /\ fetches' = Append(fetches, <<"events_fallback", FALSE>>)
    /\ pc' = "events"
    /\ UNCHANGED <<minutes, tracking_df, raw_players, players_df,
                   enriched_tracking_data, event_data, synced, analyzeVars>>

FetchEventsFallbackFails ==
    /\ pc = "fallback"
    /\ fetches' = Append(fetches, <<"events_fallback", FALSE>>)
    /\ pc' = "failed"
    /\ UNCHANGED <<minutes, tracking_df, raw_players, players_df,
                   enriched_tracking_data, event_data, synced, analyzeVars>>

NextLoad ==
    \/ FetchTrackingOk
    \/ FetchTrackingFails
    \/ FetchMetaOk
    \/ FetchMetaFails
    \/ FetchEventsPrimaryOk
    \/ FetchEventsPrimaryFails
    \/ FetchEventsFallbackOk
    \/ FetchEventsFallbackFails

SpecLoad == InitLoad /\ [][NextLoad]_vars

-----------------------------------------------------------------------------
(* Column arithmetic and aggregation (NaN propagates, aggregates skip it)  *)

Mul(a, b) == IF a = None \/ b = None THEN None ELSE Some(Val(a) * Val(b))

Add(a, b) == IF a = None \/ b = None THEN None ELSE Some(Val(a) + Val(b))

Sub(a, b) == IF a = None \/ b = None THEN None ELSE Some(Val(a) - Val(b))

fillna(c, v) == IF c = None THEN Some(v) ELSE c

NotNull(cells) == SelectSeq(cells, LAMBDA c : c # None)

RECURSIVE SeqSum(_)
SeqSum(s) == IF s = <<>> THEN 0 ELSE Head(s) + SeqSum(Tail(s))

Values(cells) == [i \in 1..Len(NotNull(cells)) |-> Val(NotNull(cells)[i])]

(* sum of an all-NaN group is 0                                            *)
AggSum(cells) == Some(SeqSum(Values(cells)))

AggMax(cells) ==
    IF NotNull(cells) = <<>> THEN None
    ELSE Some(CHOOSE m \in Range(Values(cells)) :
                  \A x \in Range(Values(cells)) : x <= m)

(* a mean is kept exact, as the pair <<sum, count>>                        *)
AggMean(cells) ==
    IF NotNull(cells) = <<>> THEN None
    ELSE Some(<<SeqSum(Values(cells)), Len(NotNull(cells))>>)

(* count: the non-null cells of the column                                 *)
AggCount(cells) == Some(Len(NotNull(cells)))

RECURSIVE Sorted(_)
Sorted(S) ==
    IF S = {} THEN <<>>
    ELSE LET m == CHOOSE x \in S : \A y \in S : x <= y
         IN  <<m>> \o Sorted(S \ {m})

(* groupby(key): the groups are the non-null keys, in ascending order      *)
GroupKeys(df, key) ==
    Sorted({Val(k) : k \in {c \in Range(Column(df, key)) : c # None}})

GroupCells(df, key, k, c) ==
    Column(Frame(df.cols, SelectSeq(df.rows, LAMBDA r : Cell(df, r, key) = Some(k))), c)

-----------------------------------------------------------------------------
(* analyze.py: the tables the caller holds                                 *)


LinkKey == "associated_player_possession_event_id"

PossessionCols ==
    <<"event_id", "pass_outcome", "separation_gain", "lead_to_shot", "n_off_ball_runs">>

(* A possession event: pass_outcome 1 stands for 'successful'.             *)
PossessionRow(id, shot) == <<Some(id), Some(1), None, shot, Some(2 - id)>>

RunCols(hasKey, hasShot) ==
    <<"event_id", "player_name", "dangerous", "targeted", "xthreat",
      "xpass_completion", "n_simultaneous_runs",
      "distance_to_player_in_possession_start">>
    \o (IF hasKey THEN <<LinkKey>> ELSE <<>>)
    \o (IF hasShot THEN <<"lead_to_shot">> ELSE <<>>)

(* A passing-option event r = [key, name, dangerous, targeted, xthreat,    *)
(* xpass, nsim, shot], the i-th row of its table.                          *)
RunRow(i, r, hasKey, hasShot) ==
    <<Some(10 + i), r.name, r.dangerous, r.targeted, r.xthreat, r.xpass,
      r.nsim, Some(5)>>
    \o (IF hasKey THEN <<r.key>> ELSE <<>>)
    \o (IF hasShot THEN <<r.shot>> ELSE <<>>)

RunTable(rs, hasKey, hasShot) ==
    Frame(RunCols(hasKey, hasShot),
          [i \in 1..Len(rs) |-> RunRow(i, rs[i], hasKey, hasShot)])

-----------------------------------------------------------------------------
(* link_runs_to_possessions                                                *)

RunSummaryCols ==
    <<"possession_id", "n_dangerous_runs", "any_dangerous_run", "avg_xthreat",
      "max_xthreat", "total_xthreat", "n_targeted_runs", "n_total_runs">>

RunSummary(po) ==
    LET keys == GroupKeys(po, "parent_possession_id")
        g(k, c) == GroupCells(po, "parent_possession_id", k, c)
    IN  Frame(RunSummaryCols,
              [n \in 1..Len(keys) |->
                  <<Some(keys[n]),
                    AggSum(g(keys[n], "dangerous")),
                    AggMax(g(keys[n], "dangerous")),
                    AggMean(g(keys[n], "xthreat")),
                    AggMax(g(keys[n], "xthreat")),
                    AggSum(g(keys[n], "xthreat")),
                    AggSum(g(keys[n], "targeted")),
                    AggCount(g(keys[n], "player_name"))>>])

(* passing_options['parent_possession_id'] = passing_options[LinkKey]      *)
AddParentIdRenames(po) ==
    Frame([j \in 1..Len(po.cols) |->
              IF po.cols[j] = LinkKey THEN "parent_possession_id" ELSE po.cols[j]],
          po.rows)

AddParentId(po) == SetCol(po, "parent_possession_id", Column(po, LinkKey))

UntargetedDangerous(df) ==
    [i \in 1..Len(df.rows) |->
        Sub(Cell(df, df.rows[i], "n_dangerous_runs"),
            fillna(Cell(df, df.rows[i], "n_targeted_runs"), 0))]

(* What the call returns; the foreign key column is present.               *)
LinkedPossessions(poss, po) ==
    LET merged == Merge(poss, RunSummary(AddParentId(po)),
                        "event_id", "possession_id", "left", "_x", "_y")
    IN  SetCol(merged, "n_untargeted_dangerous", UntargetedDangerous(merged))

LinkDegradedRaises ==
    /\ ~HasCol(passing_options, LinkKey)
    /\ ret' = Raised("KeyError")
    /\ call' = "link"
    /\ UNCHANGED <<possessions, passing_options, loadVars>>

LinkDegraded ==
    /\ ~HasCol(passing_options, LinkKey)
    /\ ret' = possessions
    /\ call' = "link"
    /\ UNCHANGED <<possessions, passing_options, loadVars>>

LinkRuns ==
    /\ HasCol(passing_options, LinkKey)
    /\ passing_options' = AddParentId(passing_options)
    /\ ret' = LinkedPossessions(possessions, passing_options)
    /\ call' = "link"
    /\ UNCHANGED <<possessions, loadVars>>

-----------------------------------------------------------------------------
(* analyze_run_characteristics                                             *)

RunFeatureCols ==
    <<"possession_id", "n_dangerous", "avg_xthreat_runs", "max_xthreat_run",
      "max_simultaneous", "avg_distance", "n_runs">>

RunFeatures(po) ==
    LET keys == GroupKeys(po, "parent_possession_id")
        g(k, c) == GroupCells(po, "parent_possession_id", k, c)
    IN  Frame(RunFeatureCols,
              [n \in 1..Len(keys) |->
                  <<Some(keys[n]),
                    AggSum(g(keys[n], "dangerous")),
                    AggMean(g(keys[n], "xthreat")),
                    AggMax(g(keys[n], "xthreat")),
                    AggMax(g(keys[n], "n_simultaneous_runs")),
                    AggMean(g(keys[n], "distance_to_player_in_possession_start")),
                    AggCount(g(keys[n], "player_name"))>>])

PossessionsWithRuns(poss) ==
    Filter(poss, [i \in 1..Len(poss.rows) |->
                     /\ Cell(poss, poss.rows[i], "n_off_ball_runs") # None
                     /\ Val(Cell(poss, poss.rows[i], "n_off_ball_runs")) > 0])

(* The lookup of the foreign key column raises before anything is set.     *)
AnalyzeRaises ==
    /\ ~HasCol(passing_options, LinkKey)
    /\ ret' = Raised("KeyError")
    /\ call' = "analyze"
    /\ UNCHANGED <<possessions, passing_options, loadVars>>

AnalyzeRunCharacteristics ==
    /\ HasCol(passing_options, LinkKey)
    /\ passing_options' = AddParentId(passing_options)
    /\ ret' = Merge(PossessionsWithRuns(possessions), RunFeatures(passing_options'),
                    "event_id", "possession_id", "left", "_x", "_y")
    /\ call' = "analyze"
    /\ UNCHANGED <<possessions, loadVars>>

-----------------------------------------------------------------------------
(* calculate_run_value_added                                               *)

ShotFull == 250

ShotIgnored == 30

ProgressionCoef == 12

DecoyCoef == -25

OverloadCoef == 8

Is1(c) == c = Some(1)

Is0(c) == c = Some(0)

(* possessions[['event_id', 'pass_outcome', 'separation_gain',             *)
(*              'lead_to_shot']]                                           *)
OutcomeCols == <<"event_id", "pass_outcome", "separation_gain", "lead_to_shot">>

Project(df, cols) ==
    IF \E i \in 1..Len(cols) : ~HasCol(df, cols[i])
    THEN Raised("KeyError")
    ELSE Frame(cols, [i \in 1..Len(df.rows) |->
                         [j \in 1..Len(cols) |-> Cell(df, df.rows[i], cols[j])]])

MergeOutcomesSuffixLeft(po, poss) ==
    Merge(po, Project(poss, OutcomeCols),
          "parent_possession_id", "event_id", "left", "_run", "")

MergeOutcomesOnForeignKey(po, poss) ==
    Merge(po, Project(poss, OutcomeCols), LinkKey, "event_id", "left", "", "_poss")

MergeOutcomes(po, poss) ==
    Merge(po, Project(poss, OutcomeCols),
          "parent_possession_id", "event_id", "left", "", "_poss")

(* shot_created = passing_options_merged['lead_to_shot'].fillna(0)         *)
ShotCreated(m, row) == fillna(Cell(m, row, "lead_to_shot"), 0)

ShotBranch(m, row) ==
    IF Is1(Cell(m, row, "dangerous")) /\ Is1(Cell(m, row, "targeted")) THEN "full"
    ELSE IF Is1(Cell(m, row, "dangerous")) THEN "ignored"
    ELSE "none"

ShotValue(m, row) ==
    CASE ShotBranch(m, row) = "full" ->
             Mul(Mul(Cell(m, row, "xthreat"), ShotCreated(m, row)), Some(ShotFull))
      [] ShotBranch(m, row) = "ignored" ->
             Mul(Mul(Cell(m, row, "xthreat"), ShotCreated(m, row)), Some(ShotIgnored))
      [] OTHER -> Some(0)

DirectValue(m, row) ==
    IF Is1(Cell(m, row, "targeted"))
    THEN Mul(Mul(Cell(m, row, "xthreat"), Cell(m, row, "xpass_completion")), Some(10))
    ELSE Some(0)

ProgressionValue(m, row) ==
    IF Is1(Cell(m, row, "dangerous"))
    THEN Mul(Cell(m, row, "xthreat"), Some(ProgressionCoef))
    ELSE Some(0)

DecoyPenalty(m, row) ==
    IF Is0(Cell(m, row, "targeted")) /\ Is1(Cell(m, row, "dangerous"))
    THEN Mul(Cell(m, row, "xthreat"), Some(DecoyCoef))
    ELSE Some(0)

OverloadValue(m, row) ==
    IF /\ Cell(m, row, "n_simultaneous_runs") # None
       /\ Val(Cell(m, row, "n_simultaneous_runs")) > 1
       /\ Is1(Cell(m, row, "dangerous"))
    THEN Mul(Mul(Cell(m, row, "xthreat"), Some(OverloadCoef)),
             Cell(m, row, "n_simultaneous_runs"))
    ELSE Some(0)

TotalRVA(m, row) ==
    Add(Add(Add(Add(Cell(m, row, "shot_value"), Cell(m, row, "direct_value")),
                Cell(m, row, "progression_value")),
            Cell(m, row, "decoy_penalty")),
        Cell(m, row, "overload_value"))

(* The columns the scoring reads must each be one column of the merge.     *)
ReadCols ==
    <<"lead_to_shot", "dangerous", "targeted", "xthreat", "xpass_completion",
      "n_simultaneous_runs">>

calculate_run_value_added(po, poss) ==
    LET m == MergeOutcomes(po, poss)
    IN  IF ~IsFrame(m) THEN m
        ELSE IF \E i \in 1..Len(ReadCols) : NCol(m, ReadCols[i]) # 1
        THEN Raised("ValueError")
        ELSE LET n  == Len(m.rows)
                 s1 == SetCol(m, "shot_value",
                              [i \in 1..n |-> ShotValue(m, m.rows[i])])
                 s2 == SetCol(s1, "direct_value",
                              [i \in 1..n |-> DirectValue(s1, s1.rows[i])])
                 s3 == SetCol(s2, "progression_value",
                              [i \in 1..n |-> ProgressionValue(s2, s2.rows[i])])
                 s4 == SetCol(s3, "decoy_penalty",
                              [i \in 1..n |-> DecoyPenalty(s3, s3.rows[i])])
                 s5 == SetCol(s4, "overload_value",
                              [i \in 1..n |-> OverloadValue(s4, s4.rows[i])])
             IN  SetCol(s5, "RVA", [i \in 1..n |-> TotalRVA(s5, s5.rows[i])])

(* calculate_run_value_added(passing_options, possessions)                 *)
CalculateRVA ==
    /\ ret' = calculate_run_value_added(passing_options, possessions)
    /\ call' = "calculate"
    /\ UNCHANGED <<possessions, passing_options, loadVars>>

(* The scoring applied to the table the previous scoring returned.         *)
RescoreRVA ==
    /\ call = "calculate"
    /\ IsFrame(ret)
    /\ ret' = calculate_run_value_added(ret, possessions)
    /\ call' = "rescore"
    /\ UNCHANGED <<possessions, passing_options, loadVars>>

-----------------------------------------------------------------------------
(* summarize_rva                                                           *)

PlayerRvaCols ==
    <<"player_name", "total_RVA", "avg_RVA", "n_runs", "n_targeted", "n_dangerous",
      "shot_contribution", "direct_contribution">>

PlayerRva(scored) ==
    LET keys == GroupKeys(scored, "player_name")
        g(k, c) == GroupCells(scored, "player_name", k, c)
    IN  [n \in 1..Len(keys) |->
            <<Some(keys[n]),
              AggSum(g(keys[n], "RVA")),
              AggMean(g(keys[n], "RVA")),
              AggCount(g(keys[n], "RVA")),
              AggSum(g(keys[n], "targeted")),
              AggSum(g(keys[n], "dangerous")),
              AggSum(g(keys[n], "shot_value")),
              AggSum(g(keys[n], "direct_value"))>>]

(* sort_values('total_RVA', ascending=False)                               *)
RECURSIVE ByTotalDescending(_)
ByTotalDescending(rows) ==
    IF rows = <<>> THEN <<>>
    ELSE LET top == CHOOSE i \in 1..Len(rows) :
                        /\ \A j \in 1..Len(rows) : Val(rows[j][2]) <= Val(rows[i][2])
                        /\ \A j \in 1..(i - 1) : Val(rows[j][2]) < Val(rows[i][2])
         IN  <<rows[top]>> \o
             ByTotalDescending(SubSeq(rows, 1, top - 1) \o SubSeq(rows, top + 1, Len(rows)))

SummarizeRVA ==
    /\ call \in {"calculate", "rescore"}
    /\ IsFrame(ret)
    /\ ret' = Frame(PlayerRvaCols, ByTotalDescending(PlayerRva(ret)))
    /\ call' = "summarize"
    /\ UNCHANGED <<possessions, passing_options, loadVars>>

-----------------------------------------------------------------------------
(* analyze.py: the calls, in any order, on bounded input tables            *)

MaxRuns == 2

MaxScoredRuns == 1

PossessionIds == 1..2

(* Tables are drawn up to the order of their rows: rows come in ascending  *)
(* rank, where Rank lists the varying cells of a row.                      *)
Code(c) == IF c = None THEN 0 ELSE Val(c) + 1

RECURSIVE Rank(_)
Rank(cells) == IF cells = <<>> THEN 0 ELSE Code(Head(cells)) + 16 * Rank(Tail(cells))

RunCells(r) == <<r.key, r.name, r.dangerous, r.targeted, r.xthreat, r.shot>>

PossessionCells(row) == <<row[1], row[4]>>

TablesUpTo(S, n, rank) ==
    {s \in UNION {[1..k -> S] : k \in 0..n} :
        \A i \in 1..(Len(s) - 1) : rank[s[i]] <= rank[s[i + 1]]}

RunRank(S) == [r \in S |-> Rank(RunCells(r))]

PossessionRank(S) == [row \in S |-> Rank(PossessionCells(row))]

Flags == {Some(0), Some(1)}

(* The two threat profiles <<xthreat, xpass_completion,                    *)
(* n_simultaneous_runs>> of the worked examples: 0.2, 0.8, 1 and           *)
(* 0.4, 0.8, 3.                                                            *)
Profiles == {<<Some(2), Some(8), Some(1)>>, <<Some(4), Some(8), Some(3)>>}

Run(key, name, dangerous, targeted, profile, shot) ==
    [key |-> key, name |-> name, dangerous |-> dangerous, targeted |-> targeted,
     xthreat |-> profile[1], xpass |-> profile[2], nsim |-> profile[3],
     shot |-> shot]

(* Inputs that exercise the linking: the foreign key, the flags and the    *)
(* player name vary.                                                       *)
LinkRunSet(hasKey) ==
    {Run(key, name, d, t, <<Some(2), Some(8), Some(1)>>, Some(0)) :
        key \in (IF hasKey THEN {None, Some(1)} ELSE {None}),
        name \in {None, Some(7)}, d \in Flags, t \in Flags}

LinkPossessionSet == {PossessionRow(id, Some(1)) : id \in PossessionIds}

(* Inputs that exercise the scoring: the flags (null included), the threat *)
(* profile and both lead_to_shot fields vary.                              *)
ScoreRunSet(hasShot) ==
    {Run(Some(1), Some(7), d, t, profile, shot) :
        d \in Flags, t \in Flags \cup {None}, profile \in Profiles,
        shot \in (IF hasShot THEN {None, Some(1)} ELSE {None})}

ScorePossessionSet ==
    {PossessionRow(1, shot) : shot \in Flags \cup {None}}
        \cup {PossessionRow(2, Some(1))}

InitCaller ==
    /\ call = "start"
    /\ ret = Unset
    /\ pc = "loaded"
    /\ fetches = <<>>
    /\ minutes = None
    /\ tracking_df = Unset
    /\ raw_players = Unset
    /\ players_df = Unset
    /\ enriched_tracking_data = Unset
    /\ event_data = Unset
    /\ synced = Unset

InitLink ==
    /\ InitCaller
    /\ \E rows \in TablesUpTo(LinkPossessionSet, 2, PossessionRank(LinkPossessionSet)) :
           possessions = Frame(PossessionCols, rows)
    /\ \E hasKey \in BOOLEAN :
       \E rs \in TablesUpTo(LinkRunSet(hasKey), MaxRuns, RunRank(LinkRunSet(hasKey))) :
           passing_options = RunTable(rs, hasKey, TRUE)

InitScore ==
    /\ InitCaller
    /\ \E rows \in TablesUpTo(ScorePossessionSet, 2, PossessionRank(ScorePossessionSet)) :
           possessions = Frame(PossessionCols, rows)
    /\ \E hasShot \in BOOLEAN :
       \E rs \in TablesUpTo(ScoreRunSet(hasShot), MaxScoredRuns, RunRank(ScoreRunSet(hasShot))) :
           passing_options = RunTable(rs, TRUE, hasShot)

NextAnalyze ==
    \/ LinkDegraded
    \/ LinkRuns
    \/ AnalyzeRaises
    \/ AnalyzeRunCharacteristics
    \/ CalculateRVA
    \/ RescoreRVA
    \/ SummarizeRVA

SpecLink == InitLink /\ [][NextAnalyze]_vars

(* The scoring inputs all carry the foreign key column.                    *)
NextScore ==
    \/ LinkRuns
    \/ AnalyzeRunCharacteristics
    \/ CalculateRVA
    \/ RescoreRVA
    \/ SummarizeRVA

SpecScore == InitScore /\ [][NextScore]_vars

-----------------------------------------------------------------------------
(* prepare_possession_data on the table load_match_data returns, then the  *)
(* analysis calls on the two tables it cuts                                *)

(* event_type: 'player_possession' and 'passing_option'.                   *)
PlayerPossession == 1

PassingOption == 2

(* The event log carries, besides the columns the loader reads, the        *)
(* columns the analysis reads.                                             *)
PipelineEventCols ==
    EventCols \o
    <<"event_type", "pass_outcome", "separation_gain", "lead_to_shot",
      "n_off_ball_runs", "player_name", "dangerous", "targeted", "xthreat",
      "xpass_completion", "n_simultaneous_runs",
      "distance_to_player_in_possession_start", LinkKey>>

PossessionEvent(f) ==
    [frame |-> f, type |-> PlayerPossession, dangerous |-> None, targeted |-> None]

OptionEvent(f, d, t) ==
    [frame |-> f, type |-> PassingOption, dangerous |-> d, targeted |-> t]

(* A possession by player 1, alone or followed by one run of player 2      *)
(* that names it as its parent.                                            *)
PipelineLogs ==
    {<<>>}
        \cup {<<PossessionEvent(f)>> : f \in EventFrames}
        \cup {<<PossessionEvent(f), OptionEvent(g, d, t)>> :
                  f \in EventFrames, g \in EventFrames, d \in Flags, t \in Flags}

PipelineEventRow(i, e) ==
    IF e.type = PlayerPossession
    THEN <<Some(i), Some(e.frame), Some(1), Some(TeamOf(1)), Some(1),
           Some(e.type), Some(1), None, Some(1), Some(1),
           None, None, None, None, None, None, None, None>>
    ELSE <<Some(i), Some(e.frame), Some(2), Some(TeamOf(1)), Some(1),
           Some(e.type), None, None, None, None,
           Some(7), e.dangerous, e.targeted, Some(2), Some(8), Some(1), Some(5),
           Some(1)>>

PipelineEventTable(log) ==
    Frame(PipelineEventCols, [i \in 1..Len(log) |-> PipelineEventRow(i, log[i])])

FullRoster ==
    [p \in Players |-> <<Some(Clock(0, 0, 0)), Some(Clock(0, 45, 0))>>]

(* synced_df[synced_df['event_type'] == event_type].copy()                 *)
EventsOfType(synced_df, event_type) ==
    Filter(synced_df,
           [i \in 1..Len(synced_df.rows) |->
               Cell(synced_df, synced_df.rows[i], "event_type") = Some(event_type)])

(* load_match_data has returned.                                           *)
InitPipeline ==
    /\ pc = "done"
    /\ fetches = <<<<"tracking", TRUE>>, <<"meta", TRUE>>, <<"events_primary", TRUE>>>>
    /\ minutes = None
    /\ \E S \in SUBSET (Frames \X Players) : tracking_df = TrackingTable(S)
    /\ raw_players = RosterTable(FullRoster)
    /\ players_df = NormalizePlayers(raw_players)
    /\ enriched_tracking_data = EnrichTracking(tracking_df, players_df, minutes)
    /\ \E log \in PipelineLogs : event_data = PipelineEventTable(log)
    /\ synced = Sync(enriched_tracking_data, event_data)
    /\ possessions = Unset
    /\ passing_options = Unset
    /\ call = "load"
    /\ ret = Unset

(* possessions, passing_options = prepare_possession_data(synced): the     *)
(* caller holds the two tables; no analysis result is held yet.            *)
PreparePossessionData ==
    /\ possessions' = EventsOfType(synced, PlayerPossession)
    /\ passing_options' = EventsOfType(synced, PassingOption)
    /\ call' = "prepare"
    /\ ret' = Unset
    /\ UNCHANGED loadVars

NextPipeline ==
    \/ PreparePossessionData
    \/ LinkRuns
    \/ AnalyzeRunCharacteristics
    \/ IsFrame(passing_options) /\ CalculateRVA

SpecPipeline == InitPipeline /\ [][NextPipeline]_vars

-----------------------------------------------------------------------------
(* Properties of load_match_data                                           *)

RowsWith(df, c, v) == SelectSeq(df.rows, LAMBDA r : Cell(df, r, c) = Some(v))

TrackingWidth == Len(enriched_tracking_data.cols)

TrackingPart(row) == SubSeq(row, 1, TrackingWidth)

EventPart(row) == SubSeq(row, TrackingWidth + 1, TrackingWidth + Len(event_data.cols))

FanOutAt(f) ==
    LET tracked == RowsWith(enriched_tracking_data, "frame", f)
        events == RowsWith(event_data, "frame_end", f)
        joined == RowsWith(synced, "frame", f)
    IN  /\ Len(events) >= 1 =>
            /\ Len(joined) = Len(events) * Len(tracked)
            /\ \A t \in Range(tracked), e \in Range(events) :
                   Cardinality({i \in 1..Len(joined) :
                       TrackingPart(joined[i]) = t /\ EventPart(joined[i]) = e}) = 1
        /\ Len(events) = 0 =>
            /\ Len(joined) = Len(tracked)
            /\ \A t \in Range(tracked) :
                   Cardinality({i \in 1..Len(joined) : TrackingPart(joined[i]) = t}) = 1
            /\ \A r \in Range(joined) : EventPart(r) = Nulls(Len(event_data.cols))

(* C1: once the load is done, every frame F with P enriched tracking rows  *)
(* has N x P synced rows, one per player row per event, when N >= 1 events *)
(* end at F, and P rows with null event fields when none does; no synced   *)
(* row carries a frame that the enriched tracking table lacks.             *)
C1_JoinFanOut ==
    pc = "done" =>
        /\ \A f \in Frames \cup EventFrames : FanOutAt(f)
        /\ \A r \in Range(synced.rows) :
               \E t \in Range(enriched_tracking_data.rows) : TrackingPart(r) = t

C1_Witness ==
    /\ pc = "done"
    /\ \E f, g \in Frames :
           /\ Len(RowsWith(enriched_tracking_data, "frame", f)) = 2
           /\ Len(RowsWith(event_data, "frame_end", f)) = 2
           /\ Len(RowsWith(synced, "frame", f)) = 4
           /\ Len(RowsWith(enriched_tracking_data, "frame", g)) >= 1
           /\ Len(RowsWith(event_data, "frame_end", g)) = 0

FetchesOf(source) == {i \in 1..Len(fetches) : fetches[i][1] = source}

EventFetches == FetchesOf("events_primary") \cup FetchesOf("events_fallback")

(* C10: the fetch log, at every point of every run: each source is fetched *)
(* at most once; a failed tracking, metadata or fallback fetch is the last *)
(* fetch of the run, which has failed; the fallback is fetched exactly     *)
(* after a failed primary fetch and a failed primary fetch is followed by  *)
(* the fallback and nothing else; a primary success ends the fetching; at  *)
(* most two event-log fetches occur.                                       *)
C10_FetchPolicy ==
    /\ \A src \in {"tracking", "meta", "events_primary", "events_fallback"} :
           Cardinality(FetchesOf(src)) <= 1
    /\ Cardinality(EventFetches) <= 2
    /\ \A i \in 1..Len(fetches) :
           /\ (fetches[i][1] \in {"tracking", "meta", "events_fallback"} /\ ~fetches[i][2])
                  => i = Len(fetches) /\ pc = "failed"
           /\ fetches[i][1] = "events_fallback"
                  => i > 1 /\ fetches[i - 1] = <<"events_primary", FALSE>>
           /\ fetches[i] = <<"events_primary", FALSE>>
                  => IF i = Len(fetches) THEN pc = "fallback"
                     ELSE i + 1 = Len(fetches) /\ fetches[i + 1][1] = "events_fallback"
           /\ fetches[i] = <<"events_primary", TRUE>>
                  => i = Len(fetches) /\ pc = "done"
    /\ pc = "failed" => Len(fetches) >= 1 /\ ~fetches[Len(fetches)][2]

C10_Witness ==
    /\ pc = "done"
    /\ fetches = <<(<<"tracking", TRUE>>), (<<"meta", TRUE>>),
                   (<<"events_primary", FALSE>>), (<<"events_fallback", TRUE>>)>>
    /\ synced.rows # <<>>

-----------------------------------------------------------------------------
(* Properties of calculate_run_value_added                                 *)

Scored == call = "calculate" /\ IsFrame(ret)

(* A scored row is the run's row, then the four merged cells of its parent *)
(* possession, then the components.                                        *)
RunWidth == Len(passing_options.cols)

ParentLeadToShot(row) == row[RunWidth + 4]

Dangerous(row) == Is1(Cell(ret, row, "dangerous"))

Targeted(row) == Is1(Cell(ret, row, "targeted"))

TableShotValue(row) ==
    LET shot_created == fillna(ParentLeadToShot(row), 0)
    IN  IF Dangerous(row) /\ Targeted(row)
        THEN Mul(Mul(Cell(ret, row, "xthreat"), shot_created), Some(250))
        ELSE IF Dangerous(row)
        THEN Mul(Mul(Cell(ret, row, "xthreat"), shot_created), Some(30))
        ELSE Some(0)

(* C2: the shot_created factor in every scored row's shot_value is the     *)
(* lead_to_shot of the run's parent possession, 0 when that is null or the *)
(* run has no parent, whether or not the run table has its own             *)
(* lead_to_shot column.                                                    *)
C2_ShotCreatedIsParents ==
    Scored => \A row \in Range(ret.rows) :
                  Cell(ret, row, "shot_value") = TableShotValue(row)

TableDirectValue(row) ==
    IF Targeted(row)
    THEN Mul(Mul(Cell(ret, row, "xthreat"), Cell(ret, row, "xpass_completion")), Some(10))
    ELSE Some(0)

TableProgressionValue(row) ==
    IF Dangerous(row) THEN Mul(Cell(ret, row, "xthreat"), Some(12)) ELSE Some(0)

TableDecoyPenalty(row) ==
    IF Dangerous(row) /\ ~Targeted(row)
    THEN Mul(Cell(ret, row, "xthreat"), Some(-25))
    ELSE Some(0)

TableOverloadValue(row) ==
    IF Dangerous(row) /\ Val(Cell(ret, row, "n_simultaneous_runs")) > 1
    THEN Mul(Mul(Cell(ret, row, "xthreat"), Some(8)),
             Cell(ret, row, "n_simultaneous_runs"))
    ELSE Some(0)

IsExample(row, dangerous, targeted, xthreat, shot, nsim) ==
    /\ Cell(ret, row, "dangerous") = Some(dangerous)
    /\ Cell(ret, row, "targeted") = Some(targeted)
    /\ Cell(ret, row, "xthreat") = Some(xthreat)
    /\ Cell(ret, row, "xpass_completion") = Some(8)
    /\ ParentLeadToShot(row) = Some(shot)
    /\ Cell(ret, row, "n_simultaneous_runs") = Some(nsim)

(* C3: every scored row carries the five components of the condition      *)
(* table (shot_created being the parent possession's lead_to_shot) and RVA *)
(* is their sum; the two worked rows score 0.684 and 0.044.                *)
C3_RvaPerTable ==
    Scored => \A row \in Range(ret.rows) :
        /\ Cell(ret, row, "shot_value") = TableShotValue(row)
        /\ Cell(ret, row, "direct_value") = TableDirectValue(row)
        /\ Cell(ret, row, "progression_value") = TableProgressionValue(row)
        /\ Cell(ret, row, "decoy_penalty") = TableDecoyPenalty(row)
        /\ Cell(ret, row, "overload_value") = TableOverloadValue(row)
        /\ Cell(ret, row, "RVA") =
               Add(Add(Add(Add(TableShotValue(row), TableDirectValue(row)),
                           TableProgressionValue(row)),
                       TableDecoyPenalty(row)),
                   TableOverloadValue(row))
        /\ IsExample(row, 1, 1, 2, 1, 1) => Cell(ret, row, "RVA") = Some(684)
        /\ IsExample(row, 1, 0, 4, 0, 3) => Cell(ret, row, "RVA") = Some(44)

(* C4: decoy_penalty is xthreat x -0.25 on the rows that are dangerous and *)
(* not targeted (a null targeted included) and 0 elsewhere, so the         *)
(* penalised rows are the rows of the reduced-coefficient shot branch.     *)
C4_PenaltyOnIgnoredBranch ==
    Scored => \A row \in Range(ret.rows) :
        /\ Cell(ret, row, "decoy_penalty") = TableDecoyPenalty(row)
        /\ (Cell(ret, row, "decoy_penalty") # Some(0))
               <=> (ShotBranch(ret, row) = "ignored")

UniqueIds(df) ==
    \A i, j \in 1..Len(df.rows) :
        i # j => Cell(df, df.rows[i], "event_id") # Cell(df, df.rows[j], "event_id")

Leading(row, n) == SubSeq(row, 1, n)

(* C5: scoring the table a scoring returned, with the same possessions,    *)
(* raises nothing and returns rows that carry, column for column, the      *)
(* values of the rows it was given (components and RVA included): the same *)
(* rows in the same order when the possession event_ids are unique, and    *)
(* copies of them otherwise.                                               *)
C5_RescoringIdempotent ==
    [][call' = "rescore" =>
          /\ IsFrame(ret')
          /\ Leading(ret'.cols, Len(ret.cols)) = ret.cols
          /\ {Leading(row, Len(ret.cols)) : row \in Range(ret'.rows)}
                 = Range(ret.rows)
          /\ UniqueIds(possessions) =>
                 [i \in 1..Len(ret'.rows) |-> Leading(ret'.rows[i], Len(ret.cols))]
                     = ret.rows]_vars

C5_Witness ==
    /\ call = "rescore"
    /\ IsFrame(ret)
    /\ NCol(ret, "event_id_poss") = 2
    /\ NCol(ret, "RVA") = 1
    /\ \E row \in Range(ret.rows) :
           /\ Cell(ret, row, "shot_value") = Some(500)
           /\ Cell(ret, row, "RVA") = Some(684)

-----------------------------------------------------------------------------
(* Properties of link_runs_to_possessions                                  *)

Linked == call = "link" /\ IsFrame(ret) /\ HasCol(passing_options, LinkKey)

(* C6: a returned possession row whose n_targeted_runs is null has a       *)
(* non-null n_untargeted_dangerous.                                        *)
C6_NullSafeUntargeted ==
    Linked => \A row \in Range(ret.rows) :
                  Cell(ret, row, "n_targeted_runs") = None
                      => Cell(ret, row, "n_untargeted_dangerous") # None

(* C7: without the foreign key column the call returns the possessions it  *)
(* was given, columns and rows, and raises nothing.                        *)
C7_DegradedLinkReturnsInput ==
    (call = "link" /\ ~HasCol(passing_options, LinkKey))
        => /\ IsFrame(ret)
           /\ ret.cols = PossessionCols
           /\ ret = possessions

C7_Witness ==
    /\ call = "link"
    /\ ~HasCol(passing_options, LinkKey)
    /\ Len(possessions.rows) = 2
    /\ passing_options.rows # <<>>

LinkedRuns(id) ==
    SelectSeq(passing_options.rows, LAMBDA r : Cell(passing_options, r, LinkKey) = id)

FlagSum(rows, c) ==
    Cardinality({i \in 1..Len(rows) : Cell(passing_options, rows[i], c) = Some(1)})

(* C8: a possession with linked runs gets the sums of dangerous and        *)
(* targeted, the maximum of dangerous, the number of linked run rows and   *)
(* the difference of the two sums.                                         *)
C8_Aggregates ==
    Linked => \A row \in Range(ret.rows) :
        LET runs == LinkedRuns(Cell(ret, row, "event_id"))
        IN  runs # <<>> =>
              /\ Cell(ret, row, "n_dangerous_runs") = Some(FlagSum(runs, "dangerous"))
              /\ Cell(ret, row, "n_targeted_runs") = Some(FlagSum(runs, "targeted"))
              /\ Cell(ret, row, "any_dangerous_run")
                     = Some(IF FlagSum(runs, "dangerous") > 0 THEN 1 ELSE 0)
              /\ Cell(ret, row, "n_total_runs") = Some(Len(runs))
              /\ Cell(ret, row, "n_untargeted_dangerous")
                     = Some(FlagSum(runs, "dangerous") - FlagSum(runs, "targeted"))

-----------------------------------------------------------------------------
(* Properties of the calls' effects on their arguments                     *)

(* C9 as stated: no call changes a table it was passed.                    *)
C9_InputsImmutable ==
    [][possessions' = possessions /\ passing_options' = passing_options]_vars

WithoutColumn(df, c) ==
    LET keep == SelectSeq([j \in 1..Len(df.cols) |-> j], LAMBDA j : df.cols[j] # c)
    IN  Frame([n \in 1..Len(keep) |-> df.cols[keep[n]]],
              [i \in 1..Len(df.rows) |-> [n \in 1..Len(keep) |-> df.rows[i][keep[n]]]])

(* C9: no call changes possessions; the scoring and the summary change     *)
(* neither table; the linking and the run analysis change passing_options  *)
(* only by setting its column parent_possession_id to a copy of the        *)
(* foreign key column.                                                     *)
C9_OnlyParentIdAdded ==
    [][/\ possessions' = possessions
       /\ \/ passing_options' = passing_options
          \/ /\ call' \in {"link", "analyze"}
             /\ HasCol(passing_options, LinkKey)
             /\ HasCol(passing_options', "parent_possession_id")
             /\ Column(passing_options', "parent_possession_id")
                    = Column(passing_options, LinkKey)
             /\ WithoutColumn(passing_options', "parent_possession_id")
                    = WithoutColumn(passing_options, "parent_possession_id")]_vars

C9_Witness ==
    /\ call \in {"link", "analyze"}
    /\ HasCol(passing_options, "parent_possession_id")
    /\ Len(passing_options.rows) = 2
    /\ Len(possessions.rows) = 2

-----------------------------------------------------------------------------
(* The roster gates the tracking rows                                      *)

RosterEntries(p) == RowsWith(raw_players, "id", p)

BothTimesNull(entry) ==
    /\ IsNull(Cell(raw_players, entry, "start_time"))
    /\ IsNull(Cell(raw_players, entry, "end_time"))

OneTimeNull(entry) ==
    /\ ~BothTimesNull(entry)
    /\ \/ IsNull(Cell(raw_players, entry, "start_time"))
       \/ IsNull(Cell(raw_players, entry, "end_time"))

KeptPlayers ==
    {p \in Players : \E entry \in Range(RosterEntries(p)) : ~BothTimesNull(entry)}

Tracked(df, c, p, f) ==
    \E row \in Range(df.rows) :
        Cell(df, row, c) = Some(p) /\ Cell(df, row, "frame") = Some(f)

(* C11: once the roster is merged, the players of players_df are exactly   *)
(* the players with a roster entry whose start_time and end_time are not   *)
(* both null (an entry with only one of them null is kept); every row of   *)
(* the enriched tracking table, and every row of synced, belongs to such a *)
(* player; and a tracking row of such a player is in the enriched table    *)
(* and in synced whenever no minutes window cuts the table.                *)
C11_RosterGatesTracking ==
    IsFrame(enriched_tracking_data) =>
        /\ {Val(Cell(players_df, r, "id")) : r \in Range(players_df.rows)}
               = KeptPlayers
        /\ \A row \in Range(enriched_tracking_data.rows) :
               Val(Cell(enriched_tracking_data, row, "player_id")) \in KeptPlayers
        /\ IsFrame(synced) =>
               \A row \in Range(synced.rows) :
                   Val(Cell(synced, row, "player_id_tracking")) \in KeptPlayers
        /\ minutes = None =>
               \A t \in Range(tracking_df.rows) :
                   Val(t[1]) \in KeptPlayers =>
                       /\ Tracked(enriched_tracking_data, "player_id",
                                  Val(t[1]), Val(t[2]))
                       /\ IsFrame(synced) =>
                              Tracked(synced, "player_id_tracking",
                                      Val(t[1]), Val(t[2]))

C11_Witness ==
    /\ pc = "done"
    /\ \E p, q \in Players :
           /\ \E entry \in Range(RosterEntries(p)) : BothTimesNull(entry)
           /\ RowsWith(tracking_df, "player_id", p) # <<>>
           /\ RowsWith(synced, "player_id_tracking", p) = <<>>
           /\ \E entry \in Range(RosterEntries(q)) : OneTimeNull(entry)
           /\ RowsWith(tracking_df, "player_id", q) # <<>>
           /\ RowsWith(synced, "player_id_tracking", q) # <<>>

-----------------------------------------------------------------------------
(* One scored row per run                                                  *)

(* C12: a scoring that returns a table returns as many rows as the         *)
(* passing_options table it was given, whatever possessions table          *)
(* prepare_possession_data cut from synced.                                *)
C12_OneScoredRowPerRun ==
    Scored => Len(ret.rows) = Len(passing_options.rows)

-----------------------------------------------------------------------------
(* The count of untargeted dangerous runs                                  *)

UntargetedDangerousRuns(runs) ==
    Cardinality({i \in 1..Len(runs) :
                    /\ Cell(passing_options, runs[i], "dangerous") = Some(1)
                    /\ Cell(passing_options, runs[i], "targeted") # Some(1)})

(* C13: a returned possession row with linked runs has an                  *)
(* n_untargeted_dangerous that is not null, not negative, and the number   *)
(* of its linked runs that are dangerous and not targeted, whatever the    *)
(* runs' flags.                                                            *)
C13_UntargetedDangerousIsCount ==
    Linked => \A row \in Range(ret.rows) :
        LET runs == LinkedRuns(Cell(ret, row, "event_id"))
            n == Cell(ret, row, "n_untargeted_dangerous")
        IN  runs # <<>> =>
              /\ n # None
              /\ Val(n) >= 0
              /\ Val(n) = UntargetedDangerousRuns(runs)

-----------------------------------------------------------------------------
(* Scoring needs a linking call before it                                  *)

ParentIdAdded ==
    /\ ~HasCol(passing_options, "parent_possession_id")
    /\ HasCol(passing_options', "parent_possession_id")

(* C14: a scoring call returns a table only if the passing_options it is   *)
(* given carries parent_possession_id, and raises KeyError when it does    *)
(* not; the column appears on the table only through a                     *)
(* link_runs_to_possessions call that finds the foreign key column or an   *)
(* analyze_run_characteristics call, so a scoring called first, or after a *)
(* link that took the missing-column path, raises.                         *)
C14_ScoringNeedsLinking ==
    /\ [](call = "calculate" =>
             /\ IsFrame(ret) => HasCol(passing_options, "parent_possession_id")
             /\ ~HasCol(passing_options, "parent_possession_id")
                    => ret = Raised("KeyError"))
    /\ [][ParentIdAdded =>
             /\ call' \in {"link", "analyze"}
             /\ HasCol(passing_options, LinkKey)]_vars

C14_Witness ==
    /\ call = "calculate"
    /\ ~HasCol(passing_options, LinkKey)
    /\ passing_options.rows # <<>>
    /\ possessions.rows # <<>>
    /\ ret = Raised("KeyError")

====
